---- MODULE Spec2Model ----
(***************************************************************************)
(* Model of atomist/sdm-pack-s3: executePublishToS3 and pushToS3           *)
(* (lib/publishToS3.ts), putFiles and gatherParamsFromCompanionFile        *)
(* (lib/putS3.ts) and gatherKeysToDelete / deleteKeys / filterKeys         *)
(* (lib/deleteS3.ts).                                                      *)
(*                                                                         *)
(* Encoding.  Local paths are the numbers 1..n in the enumeration order of *)
(* doWithFiles.  Object keys are numbers: EmptyKey stands for the empty    *)
(* string (the only falsy string of JavaScript), every other number for a  *)
(* non-empty key.  A JavaScript object is a TLA+ function from its field   *)
(* names, so an S3.Object without a Key is a record without a Key field.   *)
(*                                                                         *)
(* One action is one synchronous segment of the code: it runs from the     *)
(* resumption of an await to the next await (or to the return).            *)
(***************************************************************************)
EXTENDS Integers, Sequences, FiniteSets, TLC

(* ------------------------------ bounds -------------------------------- *)
MaxFiles == 2
MaxRuns == 2
MaxStubPages == 2
MaxPageLen == 2
MaxBatches == 3
MaxFilterLen == 3
MaxNameLen == 2
MaxPutFiles == 4

(* ------------------------- program constants -------------------------- *)
maxItems == 1000

EmptyKey == 0
Paths == 1..MaxFiles
StaleKey == MaxFiles + 1
Keys == 1..StaleKey
bucketName == "testbucket"
region == "us-east-1"
NoMime == "false"
None == [none |-> TRUE]

Min(a, b) == IF a < b THEN a ELSE b

RECURSIVE Flatten(_)
Flatten(ss) == IF ss = <<>> THEN <<>> ELSE Head(ss) \o Flatten(Tail(ss))

Range(s) == {s[j] : j \in DOMAIN s}
Includes(s, x) == \E j \in DOMAIN s : s[j] = x

(* A JavaScript value used as a condition: an absent Key is undefined and  *)
(* the empty string is falsy.                                              *)
HasKey(o) == "Key" \in DOMAIN o
Truthy(o) == HasKey(o) /\ o.Key # EmptyKey

(* ------------------------------ filterKeys ---------------------------- *)
ObjectIdentifier(o) == [Key |-> o.Key]

(* filterKeys without the presence test `o.Key &&`.                        *)
filterKeysNoPresenceTest(ks, objects) ==
    LET kept == SelectSeq(objects, LAMBDA o : ~(HasKey(o) /\ Includes(ks, o.Key)))
    IN  [j \in DOMAIN kept |->
            IF HasKey(kept[j]) THEN [Key |-> kept[j].Key] ELSE [x \in {} |-> 0]]

(* filterKeys without the final map to { Key }.                            *)
filterKeysNoMap(ks, objects) ==
    SelectSeq(objects, LAMBDA o : Truthy(o) /\ ~Includes(ks, o.Key))

filterKeys(ks, objects) ==
    LET kept == SelectSeq(objects, LAMBDA o : Truthy(o) /\ ~Includes(ks, o.Key))
    IN  [j \in DOMAIN kept |-> ObjectIdentifier(kept[j])]

(* --------------------------- data of the model ------------------------ *)
EmptyParams == [x \in {} |-> 0]
Absent == [state |-> "absent"]
Malformed == [state |-> "malformed"]
Valid(ov) == [state |-> "valid", overrides |-> ov]
Companions ==
    {Absent, Malformed,
     Valid([ContentType |-> "application/custom", WebsiteRedirectLocation |-> "/melba.html"]),
     Valid([Key |-> StaleKey])}

(* mime.lookup(file.path): the type inferred from the extension, or false. *)
MimeLookup(path) == IF path = 1 THEN "text/html" ELSE NoMime

Identity == [p \in Paths |-> p]
FlattenTo1 == [p \in Paths |-> 1]
Translations == {Identity, FlattenTo1}

PutWarning(path, key) == [type |-> "put", path |-> path, key |-> key]
ParamsWarning(path) == [type |-> "params", path |-> path]
ListWarning == [type |-> "list"]
DeleteBatchWarning(objs) == [type |-> "deleteBatch", keys |-> objs]
DeleteObjectWarning(k) == [type |-> "deleteObject", key |-> k]

bucketUrl == <<"http://", bucketName, ".s3-website.", region, ".amazonaws.com/">>

VARIABLES
    inputParams,         \* the options object the caller hands to executePublishToS3
    params,              \* PublishToS3Options: sync, paramsExt, pathTranslation, pathToIndex
    project,             \* the selected local files, in enumeration order
    bucket,              \* keys of the objects the bucket holds
    run,                 \* number of the current pushToS3 run
    pc,                  \* position of pushToS3
    cb,                  \* position of the doWithFiles callback of each file
    fileCount, keys, warnings, pleaseGiveUp,     \* locals of putFiles
    putInFlight,         \* objectParams of the put each callback awaits
    listObjectsResponse, keysToDelete, gatherWarnings, listInFlight,  \* gatherKeysToDelete
    i, deleted, deleteWarnings, deleteInFlight,  \* deleteKeys
    result,              \* PushToS3Result of the current run
    history,             \* results of the completed runs
    putLog, listRequests, listResponses, deleteRequests, deleteResponses, \* requests seen by s3
    fkObjects, fkResult, \* argument and result of a direct call of filterKeys
    inv,                 \* the goal invocation: whether inv.id.sha is defined
    goal,                \* ExecuteGoalResult returned by the goal executor
    channel,             \* messages sent through inv.addressChannels
    cfFile, cfFiles, cfResult \* a direct call of gatherParamsFromCompanionFile: the file,
                         \* the other files of the project, and what is returned

putVars == <<cb, fileCount, keys, warnings, pleaseGiveUp, putInFlight>>
gatherVars == <<listObjectsResponse, keysToDelete, gatherWarnings, listInFlight>>
deleteVars == <<i, deleted, deleteWarnings, deleteInFlight>>
logVars == <<putLog, listRequests, listResponses, deleteRequests, deleteResponses>>
configVars == <<params, project, inputParams>>
filterVars == <<fkObjects, fkResult>>
goalVars == <<inv, goal, channel>>
companionVars == <<cfFile, cfFiles, cfResult>>
vars == <<configVars, bucket, run, pc, putVars, gatherVars, deleteVars, result, history,
          logVars, filterVars, goalVars, companionVars>>

NumFiles == Len(project)
Done(f) == cb[f] \in {"skipped", "succeeded", "failed", "gaveUp"}

(* The state of a run before pushToS3 is entered. *)
FreshRun ==
    /\ pc = "putFiles"
    /\ cb = [f \in 1..Len(project) |-> "notStarted"]
    /\ fileCount = 0 /\ keys = <<>> /\ warnings = <<>> /\ pleaseGiveUp = FALSE
    /\ putInFlight = [f \in 1..Len(project) |-> None]
    /\ listObjectsResponse = None /\ keysToDelete = <<>> /\ gatherWarnings = <<>>
    /\ listInFlight = None
    /\ i = 0 /\ deleted = 0 /\ deleteWarnings = <<>> /\ deleteInFlight = None
    /\ result = None
    /\ putLog = <<>> /\ listRequests = <<>> /\ listResponses = <<>>
    /\ deleteRequests = <<>> /\ deleteResponses = <<>>

(* ------------------------------- putFiles ----------------------------- *)
Key(path) == params.pathTranslation[path]
ContentType(path) == IF MimeLookup(path) # NoMime THEN MimeLookup(path) ELSE "text/plain"

(* gatherParamsFromCompanionFile saying nothing of a malformed file.       *)
gatherParamsSilently(path) ==
    LET paramsFile == project[path].companion
    IN  CASE paramsFile.state = "absent" -> <<EmptyParams, <<>>>>
          [] paramsFile.state = "valid" -> <<paramsFile.overrides, <<>>>>
          [] paramsFile.state = "malformed" -> <<EmptyParams, <<>>>>

(* gatherParamsFromCompanionFile: <<fileParams, warnings>> for the file.   *)
gatherParamsFromCompanionFile(path) ==
    LET paramsFile == project[path].companion
    IN  CASE paramsFile.state = "absent" -> <<EmptyParams, <<>>>>
          [] paramsFile.state = "valid" -> <<paramsFile.overrides, <<>>>>
          [] paramsFile.state = "malformed" -> <<EmptyParams, <<ParamsWarning(path)>>>>

BaseParams(path) ==
    [Bucket |-> bucketName, Key |-> Key(path), Body |-> path, ContentType |-> ContentType(path)]

(* The merge with the base fields winning over the descriptor's.           *)
SpreadBaseWins(base, fileParams) == base @@ fileParams

(* { ...base, ...fileParams }: a later spread wins on a common field.      *)
Spread(base, fileParams) == fileParams @@ base

(* doWithFiles hands the files to the callback in enumeration order; it    *)
(* does not wait for the promise of one callback before it calls the next. *)
MayStart(f) == \A g \in 1..(f - 1) : cb[g] # "notStarted"

(* The callback counting the file before it tests pleaseGiveUp.            *)
CallbackStartCountsSkipped(f) ==
    /\ pc = "putFiles"
    /\ cb[f] = "notStarted"
    /\ MayStart(f)
    /\ IF pleaseGiveUp
         THEN /\ cb' = [cb EXCEPT ![f] = "skipped"]
              /\ fileCount' = fileCount + 1
         ELSE /\ cb' = [cb EXCEPT ![f] = "content"]
              /\ fileCount' = fileCount + 1
    /\ UNCHANGED <<configVars, goalVars, bucket, run, pc, keys, warnings, pleaseGiveUp, putInFlight,
                   gatherVars, deleteVars, result, history, logVars, filterVars, companionVars>>

(* Lines 24-31: entry of the callback up to `await file.getContentBuffer()`. *)
CallbackStart(f) ==
    /\ pc = "putFiles"
    /\ cb[f] = "notStarted"
    /\ MayStart(f)
    /\ IF pleaseGiveUp
         THEN /\ cb' = [cb EXCEPT ![f] = "skipped"]
              /\ UNCHANGED fileCount
         ELSE /\ cb' = [cb EXCEPT ![f] = "content"]
              /\ fileCount' = fileCount + 1
    /\ UNCHANGED <<configVars, goalVars, bucket, run, pc, keys, warnings, pleaseGiveUp, putInFlight,
                   gatherVars, deleteVars, result, history, logVars, filterVars, companionVars>>

(* The callback looking for the companion file whether or not an extension *)
(* is configured.                                                          *)
CallbackPutAlwaysGathers(f) ==
    /\ pc = "putFiles"
    /\ cb[f] = "content"
    /\ LET gathered == gatherParamsFromCompanionFile(f)
           objectParams == Spread(BaseParams(f), gathered[1])
       IN  /\ warnings' = warnings \o gathered[2]
           /\ putInFlight' = [putInFlight EXCEPT ![f] = objectParams]
           /\ putLog' = Append(putLog, [path |-> f, request |-> objectParams,
                                        gaveUp |-> {g \in 1..NumFiles : cb[g] = "gaveUp"},
                                        failed |-> {g \in 1..NumFiles : cb[g] = "failed"},
                                        lookup |-> TRUE])
    /\ cb' = [cb EXCEPT ![f] = "put"]
    /\ UNCHANGED <<configVars, goalVars, bucket, run, pc, fileCount, keys, pleaseGiveUp,
                   gatherVars, deleteVars, result, history,
                   listRequests, listResponses, deleteRequests, deleteResponses, filterVars, companionVars>>

(* Lines 32-47: the content is there; the companion file is looked up and  *)
(* parsed (its awaits touch nothing but locals of this callback) and the   *)
(* put request is issued.                                                  *)
CallbackPut(f) ==
    /\ pc = "putFiles"
    /\ cb[f] = "content"
    /\ LET gathered == IF params.paramsExt THEN gatherParamsFromCompanionFile(f)
                                           ELSE <<EmptyParams, <<>>>>
           objectParams == Spread(BaseParams(f), gathered[1])
       IN  /\ warnings' = warnings \o gathered[2]
           /\ putInFlight' = [putInFlight EXCEPT ![f] = objectParams]
           /\ putLog' = Append(putLog, [path |-> f, request |-> objectParams,
                                        gaveUp |-> {g \in 1..NumFiles : cb[g] = "gaveUp"},
                                        failed |-> {g \in 1..NumFiles : cb[g] = "failed"},
                                        lookup |-> params.paramsExt])
    /\ cb' = [cb EXCEPT ![f] = "put"]
    /\ UNCHANGED <<configVars, goalVars, bucket, run, pc, fileCount, keys, pleaseGiveUp,
                   gatherVars, deleteVars, result, history,
                   listRequests, listResponses, deleteRequests, deleteResponses, filterVars, companionVars>>

PutOutcomes == {"ok", "error", "InvalidAccessKeyId"}

(* The callback recording the key whether the put succeeded or not.        *)
PutResponseKeepsFailedKey(f, outcome) ==
    /\ pc = "putFiles"
    /\ cb[f] = "put"
    /\ putInFlight' = [putInFlight EXCEPT ![f] = None]
    /\ keys' = Append(keys, Key(f))
    /\ IF outcome = "ok"
         THEN /\ bucket' = bucket \cup {putInFlight[f].Key}
              /\ cb' = [cb EXCEPT ![f] = "succeeded"]
              /\ UNCHANGED <<warnings, pleaseGiveUp>>
         ELSE /\ warnings' = Append(warnings, PutWarning(f, Key(f)))
              /\ pleaseGiveUp' = (pleaseGiveUp \/ outcome = "InvalidAccessKeyId")
              /\ cb' = [cb EXCEPT ![f] = IF outcome = "InvalidAccessKeyId"
                                           THEN "gaveUp" ELSE "failed"]
              /\ UNCHANGED bucket
    /\ UNCHANGED <<configVars, goalVars, run, pc, fileCount, gatherVars, deleteVars, result, history,
                   logVars, filterVars, companionVars>>

(* The callback giving up on any failed put, whatever its code.            *)
PutResponseGivesUpOnAnyError(f, outcome) ==
    /\ pc = "putFiles"
    /\ cb[f] = "put"
    /\ putInFlight' = [putInFlight EXCEPT ![f] = None]
    /\ IF outcome = "ok"
         THEN /\ keys' = Append(keys, Key(f))
              /\ bucket' = bucket \cup {putInFlight[f].Key}
              /\ cb' = [cb EXCEPT ![f] = "succeeded"]
              /\ UNCHANGED <<warnings, pleaseGiveUp>>
         ELSE /\ warnings' = Append(warnings, PutWarning(f, Key(f)))
              /\ pleaseGiveUp' = TRUE
              /\ cb' = [cb EXCEPT ![f] = IF outcome = "InvalidAccessKeyId"
                                           THEN "gaveUp" ELSE "failed"]
              /\ UNCHANGED <<keys, bucket>>
    /\ UNCHANGED <<configVars, goalVars, run, pc, fileCount, gatherVars, deleteVars, result,
                   history, logVars, filterVars, companionVars>>

(* Lines 47-58: the put request returns or throws.                         *)
PutResponse(f, outcome) ==
    /\ pc = "putFiles"
    /\ cb[f] = "put"
    /\ putInFlight' = [putInFlight EXCEPT ![f] = None]
    /\ IF outcome = "ok"
         THEN /\ keys' = Append(keys, Key(f))
              /\ bucket' = bucket \cup {putInFlight[f].Key}
              /\ cb' = [cb EXCEPT ![f] = "succeeded"]
              /\ UNCHANGED <<warnings, pleaseGiveUp>>
         ELSE /\ warnings' = Append(warnings, PutWarning(f, Key(f)))
              /\ pleaseGiveUp' = (pleaseGiveUp \/ outcome = "InvalidAccessKeyId")
              /\ cb' = [cb EXCEPT ![f] = IF outcome = "InvalidAccessKeyId"
                                           THEN "gaveUp" ELSE "failed"]
              /\ UNCHANGED <<keys, bucket>>
    /\ UNCHANGED <<configVars, goalVars, run, pc, fileCount, gatherVars, deleteVars, result, history,
                   logVars, filterVars, companionVars>>

(* ------------------------------ pushToS3 ------------------------------ *)
Undefined == 0 - 1

(* Array.prototype.slice(from, to) taken with an inclusive end.            *)
sliceInclusive(s, from, to) == SubSeq(s, from + 1, Min(to + 1, Len(s)))

slice(s, from, to) == SubSeq(s, from + 1, Min(to, Len(s)))

(* deleteKeys sending its first request before it looks at the length of  *)
(* the list.                                                               *)
DeleteLoopAtLeastOnce(idx, del, dw) ==
    /\ i' = idx
    /\ deleted' = del
    /\ deleteWarnings' = dw
    /\ IF idx < Len(keysToDelete) \/ idx = 0
         THEN LET deleteNow == slice(keysToDelete, idx, idx + maxItems)
              IN  /\ deleteInFlight' = [Bucket |-> bucketName, Objects |-> deleteNow]
                  /\ deleteRequests' = Append(deleteRequests, deleteNow)
                  /\ pc' = "deleteKeys"
         ELSE /\ deleteInFlight' = None
              /\ UNCHANGED deleteRequests
              /\ pc' = "deleted"

(* deleteKeys at the head of its for loop, with the values of its locals:  *)
(* the next chunk is requested, or the function returns.                   *)
DeleteLoop(idx, del, dw) ==
    /\ i' = idx
    /\ deleted' = del
    /\ deleteWarnings' = dw
    /\ IF idx < Len(keysToDelete)
         THEN LET deleteNow == slice(keysToDelete, idx, idx + maxItems)
              IN  /\ deleteInFlight' = [Bucket |-> bucketName, Objects |-> deleteNow]
                  /\ deleteRequests' = Append(deleteRequests, deleteNow)
                  /\ pc' = "deleteKeys"
         ELSE /\ deleteInFlight' = None
              /\ UNCHANGED deleteRequests
              /\ pc' = "deleted"

(* deleteKeys without the break of its catch block: the loop goes on.      *)
DeleteNoBreak(del, dw) ==
    /\ i' = i + maxItems
    /\ deleted' = del
    /\ deleteWarnings' = dw
    /\ IF i + maxItems < Len(keysToDelete)
         THEN LET deleteNow == slice(keysToDelete, i + maxItems, i + maxItems + maxItems)
              IN  /\ deleteInFlight' = [Bucket |-> bucketName, Objects |-> deleteNow]
                  /\ deleteRequests' = Append(deleteRequests, deleteNow)
                  /\ pc' = "deleteKeys"
         ELSE /\ deleteInFlight' = None
              /\ UNCHANGED deleteRequests
              /\ pc' = "deleted"

(* deleteKeys after its loop was left by break.                            *)
DeleteBreak(del, dw) ==
    /\ UNCHANGED i
    /\ deleted' = del
    /\ deleteWarnings' = dw
    /\ deleteInFlight' = None
    /\ UNCHANGED deleteRequests
    /\ pc' = "deleted"

(* gatherKeysToDelete asking for the first page again and again.          *)
GatherLoopNoToken(response, kd, gw) ==
    /\ listObjectsResponse' = response
    /\ keysToDelete' = kd
    /\ gatherWarnings' = gw
    /\ IF response.IsTruncated
         THEN LET request == [Bucket |-> bucketName, MaxKeys |-> maxItems,
                              ContinuationToken |-> Undefined]
              IN  /\ listInFlight' = request
                  /\ listRequests' = Append(listRequests, request)
                  /\ pc' = "gather"
         ELSE /\ listInFlight' = None
              /\ UNCHANGED listRequests
              /\ pc' = "gathered"

(* gatherKeysToDelete at the head of its while loop: the next page is      *)
(* requested, or the function returns.                                     *)
GatherLoop(response, kd, gw) ==
    /\ listObjectsResponse' = response
    /\ keysToDelete' = kd
    /\ gatherWarnings' = gw
    /\ IF response.IsTruncated
         THEN LET request == [Bucket |-> bucketName, MaxKeys |-> maxItems,
                              ContinuationToken |-> response.NextContinuationToken]
              IN  /\ listInFlight' = request
                  /\ listRequests' = Append(listRequests, request)
                  /\ pc' = "gather"
         ELSE /\ listInFlight' = None
              /\ UNCHANGED listRequests
              /\ pc' = "gathered"

(* gatherKeysToDelete giving up its candidates when the listing fails.     *)
GatherBreakDropsCandidates(kd, gw) ==
    /\ UNCHANGED listObjectsResponse
    /\ keysToDelete' = <<>>
    /\ gatherWarnings' = gw
    /\ listInFlight' = None
    /\ UNCHANGED listRequests
    /\ pc' = "gathered"

(* gatherKeysToDelete after its loop was left by break.                    *)
GatherBreak(kd, gw) ==
    /\ UNCHANGED listObjectsResponse
    /\ keysToDelete' = kd
    /\ gatherWarnings' = gw
    /\ listInFlight' = None
    /\ UNCHANGED listRequests
    /\ pc' = "gathered"

(* The result with the warnings of the sync phase ahead of those of putFiles. *)
PushToS3ResultSyncFirst(fc, putW, moreW, del) ==
    [bucketUrl |-> bucketUrl, warnings |-> moreW \o putW, fileCount |-> fc, deleted |-> del]

PushToS3Result(fc, putW, moreW, del) ==
    [bucketUrl |-> bucketUrl, warnings |-> putW \o moreW, fileCount |-> fc, deleted |-> del]

(* putFiles resolving only when every put succeeded: a rejected put       *)
(* leaves the promise of doWithFiles pending.                              *)
PutFilesReturnOnSuccessOnly ==
    /\ pc = "putFiles"
    /\ \A f \in 1..NumFiles : cb[f] = "succeeded"
    /\ IF params.sync
         THEN /\ GatherLoop([IsTruncated |-> TRUE, NextContinuationToken |-> Undefined],
                            <<>>, <<>>)
              /\ UNCHANGED result
         ELSE /\ result' = PushToS3Result(fileCount, warnings, <<>>, 0)
              /\ pc' = "returned"
              /\ UNCHANGED <<gatherVars, listRequests>>
    /\ UNCHANGED <<configVars, goalVars, bucket, run, putVars, deleteVars, history, putLog,
                   listResponses, deleteRequests, deleteResponses, filterVars, companionVars>>

(* pushToS3 entering the sync phase whatever params.sync says.             *)
PutFilesReturnAlwaysSyncs ==
    /\ pc = "putFiles"
    /\ \A f \in 1..NumFiles : Done(f)
    /\ IF TRUE
         THEN /\ GatherLoop([IsTruncated |-> TRUE, NextContinuationToken |-> Undefined],
                            <<>>, <<>>)
              /\ UNCHANGED result
         ELSE /\ result' = PushToS3Result(fileCount, warnings, <<>>, 0)
              /\ pc' = "returned"
              /\ UNCHANGED <<gatherVars, listRequests>>
    /\ UNCHANGED <<configVars, goalVars, bucket, run, putVars, deleteVars, history, putLog,
                   listResponses, deleteRequests, deleteResponses, filterVars, companionVars>>

(* pushToS3 going on as soon as every callback was called, without        *)
(* awaiting the promises of the callbacks.                                 *)
PutFilesReturnNoAwait ==
    /\ pc = "putFiles"
    /\ \A f \in 1..NumFiles : cb[f] # "notStarted"
    /\ IF params.sync
         THEN /\ GatherLoop([IsTruncated |-> TRUE, NextContinuationToken |-> Undefined],
                            <<>>, <<>>)
              /\ UNCHANGED result
         ELSE /\ result' = PushToS3Result(fileCount, warnings, <<>>, 0)
              /\ pc' = "returned"
              /\ UNCHANGED <<gatherVars, listRequests>>
    /\ UNCHANGED <<configVars, goalVars, bucket, run, putVars, deleteVars, history, putLog,
                   listResponses, deleteRequests, deleteResponses, filterVars, companionVars>>

(* Lines 168-172 and 178-183: doWithFiles has resolved, putFiles returns   *)
(* and pushToS3 goes on: to the first list request when sync is on, to its *)
(* return when it is off.                                                  *)
PutFilesReturn ==
    /\ pc = "putFiles"
    /\ \A f \in 1..NumFiles : Done(f)
    /\ IF params.sync
         THEN /\ GatherLoop([IsTruncated |-> TRUE, NextContinuationToken |-> Undefined],
                            <<>>, <<>>)
              /\ UNCHANGED result
         ELSE /\ result' = PushToS3Result(fileCount, warnings, <<>>, 0)
              /\ pc' = "returned"
              /\ UNCHANGED <<gatherVars, listRequests>>
    /\ UNCHANGED <<configVars, goalVars, bucket, run, putVars, deleteVars, history, putLog,
                   listResponses, deleteRequests, deleteResponses, filterVars, companionVars>>

(* gatherKeysToDelete keeping the candidates of the last page only.        *)
OnListResponseLastPageOnly(response) ==
    /\ pc = "gather"
    /\ listInFlight # None
    /\ listResponses' = Append(listResponses, response)
    /\ IF response.failed
         THEN GatherBreak(keysToDelete, Append(gatherWarnings, ListWarning))
         ELSE GatherLoop([IsTruncated |-> response.IsTruncated,
                          NextContinuationToken |-> response.NextContinuationToken],
                         filterKeys(keys, response.Contents),
                         gatherWarnings)
    /\ UNCHANGED <<configVars, goalVars, bucket, run, putVars, deleteVars, result, history, putLog,
                   deleteRequests, deleteResponses, filterVars, companionVars>>

(* Lines 81-92 of gatherKeysToDelete: the list request returns or throws.  *)
OnListResponse(response) ==
    /\ pc = "gather"
    /\ listInFlight # None
    /\ listResponses' = Append(listResponses, response)
    /\ IF response.failed
         THEN GatherBreak(keysToDelete, Append(gatherWarnings, ListWarning))
         ELSE GatherLoop([IsTruncated |-> response.IsTruncated,
                          NextContinuationToken |-> response.NextContinuationToken],
                         keysToDelete \o filterKeys(keys, response.Contents),
                         gatherWarnings)
    /\ UNCHANGED <<configVars, goalVars, bucket, run, putVars, deleteVars, result, history, putLog,
                   deleteRequests, deleteResponses, filterVars, companionVars>>

(* Line 173 of pushToS3 and lines 31-35 of deleteKeys: gatherKeysToDelete  *)
(* has returned and deleteKeys is called with its candidates.              *)
DeleteKeysCall ==
    /\ pc = "gathered"
    /\ DeleteLoop(0, 0, <<>>)
    /\ UNCHANGED <<configVars, goalVars, bucket, run, putVars, gatherVars, result, history, putLog,
                   listRequests, listResponses, deleteResponses, filterVars, companionVars>>

(* deleteKeys leaving its loop when a response reports an object in Errors. *)
OnDeleteResponseStopsOnErrors(response) ==
    /\ pc = "deleteKeys"
    /\ deleteInFlight # None
    /\ deleteResponses' = Append(deleteResponses, response)
    /\ IF response.failed
         THEN DeleteBreak(deleted,
                          Append(deleteWarnings, DeleteBatchWarning(deleteInFlight.Objects)))
         ELSE IF response.Errors # <<>>
                THEN DeleteBreak(deleted + Len(response.Deleted),
                                 deleteWarnings \o
                                     [j \in DOMAIN response.Errors |->
                                         DeleteObjectWarning(response.Errors[j].Key)])
                ELSE DeleteLoop(i + maxItems, deleted + Len(response.Deleted), deleteWarnings)
    /\ UNCHANGED <<configVars, goalVars, run, putVars, gatherVars, result, history, putLog,
                   listRequests, listResponses, filterVars, companionVars>>

(* deleteKeys counting the objects it asked to delete, not those reported  *)
(* in Deleted.                                                             *)
OnDeleteResponseCountsRequested(response) ==
    /\ pc = "deleteKeys"
    /\ deleteInFlight # None
    /\ deleteResponses' = Append(deleteResponses, response)
    /\ IF response.failed
         THEN DeleteBreak(deleted,
                          Append(deleteWarnings, DeleteBatchWarning(deleteInFlight.Objects)))
         ELSE DeleteLoop(i + maxItems,
                         deleted + Len(deleteInFlight.Objects),
                         deleteWarnings \o
                             [j \in DOMAIN response.Errors |->
                                 DeleteObjectWarning(response.Errors[j].Key)])
    /\ UNCHANGED <<configVars, goalVars, run, putVars, gatherVars, result, history, putLog,
                   listRequests, listResponses, filterVars, companionVars>>

(* Lines 37-59 of deleteKeys: the delete request returns or throws.        *)
OnDeleteResponse(response) ==
    /\ pc = "deleteKeys"
    /\ deleteInFlight # None
    /\ deleteResponses' = Append(deleteResponses, response)
    /\ IF response.failed
         THEN DeleteBreak(deleted,
                          Append(deleteWarnings, DeleteBatchWarning(deleteInFlight.Objects)))
         ELSE DeleteLoop(i + maxItems,
                         deleted + Len(response.Deleted),
                         deleteWarnings \o
                             [j \in DOMAIN response.Errors |->
                                 DeleteObjectWarning(response.Errors[j].Key)])
    /\ UNCHANGED <<configVars, goalVars, run, putVars, gatherVars, result, history, putLog,
                   listRequests, listResponses, filterVars, companionVars>>

(* Lines 174-183 of pushToS3: deleteKeys has returned; the result.         *)
PushToS3Return ==
    /\ pc = "deleted"
    /\ result' = PushToS3Result(fileCount, warnings, gatherWarnings \o deleteWarnings, deleted)
    /\ pc' = "returned"
    /\ UNCHANGED <<configVars, goalVars, bucket, run, putVars, gatherVars, deleteVars, history,
                   logVars, filterVars, companionVars>>

(* ------------------------------ the S3 client ------------------------- *)
Failure == [failed |-> TRUE]
ListOutput(contents, truncated, token) ==
    [failed |-> FALSE, Contents |-> contents, IsTruncated |-> truncated,
     NextContinuationToken |-> token]
DeleteOutput(deletedObjects, errors) ==
    [failed |-> FALSE, Deleted |-> deletedObjects, Errors |-> errors]

RECURSIVE SortedSeq(_)
SortedSeq(S) ==
    IF S = {} THEN <<>>
    ELSE LET m == CHOOSE x \in S : \A y \in S : x <= y
         IN  <<m>> \o SortedSeq(S \ {m})

ListedObject(k) == [Key |-> k, Size |-> 0, StorageClass |-> "STANDARD"]

(* The bucket answers a list request: some or all (at most MaxKeys) of the *)
(* keys after the continuation token, in key order.                        *)
BucketPages(request) ==
    LET rest == SortedSeq({k \in bucket : k > request.ContinuationToken})
        sizes == {Min(1, Len(rest)), Min(request.MaxKeys, Len(rest))}
    IN  {ListOutput([j \in 1..c |-> ListedObject(rest[j])], c < Len(rest),
                    IF c < Len(rest) THEN rest[c] ELSE Undefined) : c \in sizes}

ListResponseBucket ==
    /\ listInFlight # None
    /\ \E response \in BucketPages(listInFlight) \cup {Failure} : OnListResponse(response)

(* A stubbed listObjectsV2, as in the tests: any page of objects, with or  *)
(* without keys, truncated or not whatever it holds.                       *)
StubObjects ==
    {[Key |-> k] : k \in Keys} \cup
    {[Key |-> EmptyKey], [Size |-> 1993]}
StubTokens == {1, 2}

SeqsUpTo(S, n) == UNION {[1..m -> S] : m \in 0..n}

StubPages == SeqsUpTo(StubObjects, MaxPageLen)

ListResponseStub ==
    /\ listInFlight # None
    /\ \/ OnListResponse(Failure)
       \/ \E contents \in StubPages : OnListResponse(ListOutput(contents, FALSE, Undefined))
       \/ /\ Len(listResponses) + 1 < MaxStubPages
          /\ \E contents \in StubPages : \E token \in StubTokens :
                OnListResponse(ListOutput(contents, TRUE, token))

(* The bucket answers a delete request: every object is deleted, or every  *)
(* object but the first, which is reported in Errors; or the request fails. *)
DeleteAnswers(request) ==
    { DeleteOutput(request.Objects, <<>>),
      DeleteOutput(Tail(request.Objects), <<[Key |-> Head(request.Objects).Key]>>),
      Failure }

DeleteResponse ==
    /\ deleteInFlight # None
    /\ \E response \in DeleteAnswers(deleteInFlight) :
        /\ OnDeleteResponse(response)
        /\ bucket' = IF response.failed THEN bucket
                     ELSE bucket \ {o.Key : o \in Range(response.Deleted)}

(* The goal running again with pleaseGiveUp held outside putFiles, so that *)
(* a new call finds the value the last call left.                          *)
NextRunKeepsFlag ==
    /\ pc = "returned"
    /\ run < MaxRuns
    /\ run' = run + 1
    /\ history' = Append(history, result)
    /\ pc' = "putFiles"
    /\ cb' = [f \in 1..Len(project) |-> "notStarted"]
    /\ fileCount' = 0 /\ keys' = <<>> /\ warnings' = <<>> /\ UNCHANGED pleaseGiveUp
    /\ putInFlight' = [f \in 1..Len(project) |-> None]
    /\ listObjectsResponse' = None /\ keysToDelete' = <<>> /\ gatherWarnings' = <<>>
    /\ listInFlight' = None
    /\ i' = 0 /\ deleted' = 0 /\ deleteWarnings' = <<>> /\ deleteInFlight' = None
    /\ result' = None
    /\ putLog' = <<>> /\ listRequests' = <<>> /\ listResponses' = <<>>
    /\ deleteRequests' = <<>> /\ deleteResponses' = <<>>
    /\ UNCHANGED <<configVars, goalVars, bucket, filterVars, companionVars>>

(* The goal runs again, on the same project and options.                   *)
NextRun ==
    /\ pc = "returned"
    /\ run < MaxRuns
    /\ run' = run + 1
    /\ history' = Append(history, result)
    /\ pc' = "putFiles"
    /\ cb' = [f \in 1..Len(project) |-> "notStarted"]
    /\ fileCount' = 0 /\ keys' = <<>> /\ warnings' = <<>> /\ pleaseGiveUp' = FALSE
    /\ putInFlight' = [f \in 1..Len(project) |-> None]
    /\ listObjectsResponse' = None /\ keysToDelete' = <<>> /\ gatherWarnings' = <<>>
    /\ listInFlight' = None
    /\ i' = 0 /\ deleted' = 0 /\ deleteWarnings' = <<>> /\ deleteInFlight' = None
    /\ result' = None
    /\ putLog' = <<>> /\ listRequests' = <<>> /\ listResponses' = <<>>
    /\ deleteRequests' = <<>> /\ deleteResponses' = <<>>
    /\ UNCHANGED <<configVars, goalVars, bucket, filterVars, companionVars>>

(* ------------------- Spec: one run of pushToS3 ------------------------ *)
Projects ==
    UNION {[1..n -> [companion : Companions]] : n \in 0..MaxFiles}

NoFilterCall ==
    /\ fkObjects = <<>>
    /\ fkResult = None
    /\ cfFile = None
    /\ cfFiles = {}
    /\ cfResult = None

(* pushToS3 is called directly, as the tests do, not by the goal executor. *)
DirectCall ==
    /\ inputParams = None
    /\ inv = [sha |-> TRUE]
    /\ goal = None
    /\ channel = <<>>

Init ==
    /\ params \in [sync : BOOLEAN, paramsExt : BOOLEAN, pathTranslation : Translations]
    /\ project \in Projects
    /\ bucket \in {{}, Keys}
    /\ run = 1
    /\ history = <<>>
    /\ NoFilterCall
    /\ DirectCall
    /\ FreshRun

PutFiles ==
    \/ \E f \in 1..NumFiles : CallbackStart(f)
    \/ \E f \in 1..NumFiles : CallbackPut(f)
    \/ \E f \in 1..NumFiles : \E outcome \in PutOutcomes : PutResponse(f, outcome)

Next ==
    \/ PutFiles
    \/ PutFilesReturn
    \/ ListResponseBucket
    \/ DeleteKeysCall
    \/ DeleteResponse
    \/ PushToS3Return

Spec == Init /\ [][Next]_vars

(* ------------- SpecTwice: the goal runs again and again --------------- *)
InitTwice ==
    /\ params = [sync |-> TRUE, paramsExt |-> TRUE, pathTranslation |-> Identity]
    /\ project \in Projects
    /\ bucket = Keys
    /\ run = 1
    /\ history = <<>>
    /\ NoFilterCall
    /\ DirectCall
    /\ FreshRun

NextTwice ==
    \/ PutFiles
    \/ PutFilesReturn
    \/ ListResponseBucket
    \/ DeleteKeysCall
    \/ DeleteResponse
    \/ PushToS3Return
    \/ NextRun

SpecTwice == InitTwice /\ [][NextTwice]_vars

(* ---- SpecSync: the sync phase of pushToS3 against a stubbed listing -- *)
(* The upload phase is over: every file was put, with or without success. *)
PathsWhere(n, status, st) == SelectSeq([f \in 1..n |-> f], LAMBDA f : status[f] = st)

InitSync ==
    /\ params \in [sync : {TRUE}, paramsExt : {FALSE}, pathTranslation : Translations]
    /\ project \in UNION {[1..n -> [companion : {Absent}]] : n \in 0..MaxFiles}
    /\ cb \in [1..Len(project) -> {"succeeded", "failed"}]
    /\ pc = "putFiles"
    /\ fileCount = Len(project)
    /\ keys = [j \in DOMAIN PathsWhere(Len(project), cb, "succeeded") |->
                   Key(PathsWhere(Len(project), cb, "succeeded")[j])]
    /\ warnings = [j \in DOMAIN PathsWhere(Len(project), cb, "failed") |->
                       PutWarning(PathsWhere(Len(project), cb, "failed")[j],
                                  Key(PathsWhere(Len(project), cb, "failed")[j]))]
    /\ pleaseGiveUp = FALSE
    /\ putInFlight = [f \in 1..Len(project) |-> None]
    /\ putLog = [f \in 1..Len(project) |->
                    [path |-> f, request |-> BaseParams(f), gaveUp |-> {}, failed |-> {},
                     lookup |-> FALSE]]
    /\ bucket = Range(keys)
    /\ run = 1
    /\ history = <<>>
    /\ listObjectsResponse = None /\ keysToDelete = <<>> /\ gatherWarnings = <<>>
    /\ listInFlight = None
    /\ i = 0 /\ deleted = 0 /\ deleteWarnings = <<>> /\ deleteInFlight = None
    /\ result = None
    /\ listRequests = <<>> /\ listResponses = <<>>
    /\ deleteRequests = <<>> /\ deleteResponses = <<>>
    /\ NoFilterCall
    /\ DirectCall

NextSync ==
    \/ PutFilesReturn
    \/ ListResponseStub
    \/ DeleteKeysCall
    \/ DeleteResponse
    \/ PushToS3Return

SpecSync == InitSync /\ [][NextSync]_vars

(* ------ SpecDelete: deleteKeys on long lists of candidates ------------ *)
(* Nothing was uploaded and the listing has returned n objects in pages of *)
(* maxItems: gatherKeysToDelete has just returned them all as candidates.  *)
DeleteSizes ==
    {b * maxItems + r : b \in 0..(MaxBatches - 1),
                        r \in {0, 1, maxItems \div 2, maxItems - 1}}
    \cup {MaxBatches * maxItems}

Candidates(n) == [j \in 1..n |-> [Key |-> j]]
PageCount(n) == IF n = 0 THEN 1 ELSE (n + maxItems - 1) \div maxItems
FullPage(n, p) ==
    ListOutput(SubSeq(Candidates(n), (p - 1) * maxItems + 1, Min(p * maxItems, n)),
               p < PageCount(n),
               IF p < PageCount(n) THEN p ELSE Undefined)

InitDelete ==
    /\ params = [sync |-> TRUE, paramsExt |-> FALSE, pathTranslation |-> Identity]
    /\ project = <<>>
    /\ cb = <<>>
    /\ pc = "gathered"
    /\ fileCount = 0 /\ keys = <<>> /\ warnings = <<>> /\ pleaseGiveUp = FALSE
    /\ putInFlight = <<>>
    /\ putLog = <<>>
    /\ run = 1
    /\ history = <<>>
    /\ \E n \in DeleteSizes :
          /\ keysToDelete = Candidates(n)
          /\ bucket = 1..n
          /\ listResponses = [p \in 1..PageCount(n) |-> FullPage(n, p)]
          /\ listRequests = [p \in 1..PageCount(n) |->
                                [Bucket |-> bucketName, MaxKeys |-> maxItems,
                                 ContinuationToken |-> IF p = 1 THEN Undefined ELSE p - 1]]
    /\ listObjectsResponse = [IsTruncated |-> FALSE, NextContinuationToken |-> Undefined]
    /\ gatherWarnings = <<>>
    /\ listInFlight = None
    /\ i = 0 /\ deleted = 0 /\ deleteWarnings = <<>> /\ deleteInFlight = None
    /\ result = None
    /\ deleteRequests = <<>> /\ deleteResponses = <<>>
    /\ NoFilterCall
    /\ DirectCall

NextDelete ==
    \/ DeleteKeysCall
    \/ DeleteResponse
    \/ PushToS3Return

SpecDelete == InitDelete /\ [][NextDelete]_vars

(* ---------------- SpecFilter: filterKeys called directly -------------- *)
FilterObjects ==
    {[Key |-> k] : k \in Keys} \cup
    {[Key |-> EmptyKey], [Size |-> 1993], [ETag |-> 1], [ETag |-> 1, Key |-> 2],
     [Key |-> StaleKey, StorageClass |-> 1]}

InitFilter ==
    /\ params = [sync |-> FALSE, paramsExt |-> FALSE, pathTranslation |-> Identity]
    /\ project = <<>>
    /\ cb = <<>>
    /\ pc = "filter"
    /\ keys \in SeqsUpTo(Keys, MaxFilterLen - 1)
    /\ fkObjects \in SeqsUpTo(FilterObjects, MaxFilterLen)
    /\ fkResult = None
    /\ cfFile = None /\ cfFiles = {} /\ cfResult = None
    /\ DirectCall
    /\ fileCount = 0 /\ warnings = <<>> /\ pleaseGiveUp = FALSE
    /\ putInFlight = <<>>
    /\ putLog = <<>>
    /\ bucket = {}
    /\ run = 1
    /\ history = <<>>
    /\ listObjectsResponse = None /\ keysToDelete = <<>> /\ gatherWarnings = <<>>
    /\ listInFlight = None
    /\ i = 0 /\ deleted = 0 /\ deleteWarnings = <<>> /\ deleteInFlight = None
    /\ result = None
    /\ listRequests = <<>> /\ listResponses = <<>>
    /\ deleteRequests = <<>> /\ deleteResponses = <<>>

FilterCall ==
    /\ pc = "filter"
    /\ fkResult' = [value |-> filterKeys(keys, fkObjects)]
    /\ pc' = "filtered"
    /\ UNCHANGED <<configVars, goalVars, bucket, run, putVars, gatherVars, deleteVars, result,
                   history, logVars, fkObjects, companionVars>>

NextFilter == FilterCall

SpecFilter == InitFilter /\ [][NextFilter]_vars

(* --------- SpecLive: runs of pushToS3 that keep being scheduled ------- *)
(* Every request is answered (by a response or a failure) and every        *)
(* continuation that is ready is run: a step of the run that is possible   *)
(* is eventually taken. The runs are those of Spec and those of SpecDelete. *)
InitLive == Init \/ InitDelete

SpecLive == InitLive /\ [][Next]_vars /\ WF_vars(Next)

(* -------- SpecPut: putFiles alone, on projects of more files ---------- *)
(* pushToS3 with sync off and without companion files, as in the test of   *)
(* four files of which one cannot be put.                                  *)
InitPut ==
    /\ params = [sync |-> FALSE, paramsExt |-> FALSE,
                 pathTranslation |-> [p \in 1..MaxPutFiles |-> p]]
    /\ project \in UNION {[1..n -> [companion : {Absent}]] : n \in 0..MaxPutFiles}
    /\ bucket = {}
    /\ run = 1
    /\ history = <<>>
    /\ NoFilterCall
    /\ DirectCall
    /\ FreshRun

NextPut ==
    \/ PutFiles
    \/ PutFilesReturn

SpecPut == InitPut /\ [][NextPut]_vars

(* -------- SpecGoal: the goal executor, executePublishToS3 ------------- *)
(* The options that must be defined when the goal executes, and the       *)
(* defaults of executePublishToS3.                                         *)
requiredProps == <<"bucketName", "region", "filesToPublish">>
Required == [bucketName |-> bucketName, region |-> region, filesToPublish |-> "**/*"]
linkLabel == "S3 Website"
Defaults == [pathTranslation |-> Identity, linkLabel |-> linkLabel]

(* executePublishToS3 setting the default on the object of the caller.     *)
executePublishToS3Assigns(input) ==
    [caller |-> input @@ [pathTranslation |-> Identity],
     params |-> input @@ Defaults]

(* Lines 96-101 of executePublishToS3: params is a new object, the         *)
(* defaults first and the caller's fields spread over them. The record is  *)
(* the caller's object and the new object after the call.                  *)
executePublishToS3(input) ==
    [caller |-> input,
     params |-> input @@ Defaults]

(* The goal is registered: executePublishToS3 is called with the options.  *)
ExecutePublishToS3Call ==
    /\ pc = "registered"
    /\ inputParams' = executePublishToS3(inputParams).caller
    /\ params' = executePublishToS3(inputParams).params
    /\ pc' = "invoked"
    /\ UNCHANGED <<project, goalVars, bucket, run, putVars, gatherVars, deleteVars,
                   result, history, logVars, filterVars, companionVars>>

(* params.callback, when there is one, is awaited with the options: it     *)
(* resolves to them as they are, or with the required options filled in,   *)
(* or it rejects.                                                          *)
CallbackKinds == {"asIs", "fills", "rejects"}
HasCallback(p) == "callback" \in DOMAIN p
CallbackData(p) == IF p.callback = "fills" THEN p @@ Required ELSE p
MissingProps(data) == SelectSeq(requiredProps, LAMBDA r : r \notin DOMAIN data)
RequiredMessage(prop) ==
    CASE prop = "bucketName" ->
             "Required option [bucketName] is undefined!  Update goal configuration or registration."
      [] prop = "region" ->
             "Required option [region] is undefined!  Update goal configuration or registration."
      [] prop = "filesToPublish" ->
             "Required option [filesToPublish] is undefined!  Update goal configuration or registration."

(* The executor without its check of the commit SHA.                       *)
ExecuteGoalStartNoShaCheck ==
    /\ pc = "invoked"
    /\ IF HasCallback(params) /\ params.callback = "rejects"
         THEN /\ pc' = "thrown"
              /\ UNCHANGED <<params, goal>>
         ELSE LET data == IF HasCallback(params) THEN CallbackData(params) ELSE params
              IN  /\ params' = data
                  /\ IF MissingProps(data) # <<>>
                       THEN /\ goal' = [code |-> 1,
                                        message |-> RequiredMessage(Head(MissingProps(data)))]
                            /\ pc' = "done"
                       ELSE /\ pc' = "putFiles"
                            /\ UNCHANGED goal
    /\ UNCHANGED <<project, inputParams, inv, channel, bucket, run, putVars, gatherVars,
                   deleteVars, result, history, logVars, filterVars, companionVars>>

(* The executor without the validation of the required options.            *)
ExecuteGoalStartNoValidation ==
    /\ pc = "invoked"
    /\ IF HasCallback(params) /\ params.callback = "rejects"
         THEN /\ pc' = "thrown"
              /\ UNCHANGED <<params, goal>>
         ELSE LET data == IF HasCallback(params) THEN CallbackData(params) ELSE params
              IN  /\ params' = data
                  /\ IF ~inv.sha
                       THEN /\ goal' = [code |-> 99,
                                        message |-> "SHA is not defined. I need that"]
                            /\ pc' = "done"
                       ELSE /\ pc' = "putFiles"
                            /\ UNCHANGED goal
    /\ UNCHANGED <<project, inputParams, inv, channel, bucket, run, putVars, gatherVars,
                   deleteVars, result, history, logVars, filterVars, companionVars>>

(* Lines 102-137 of executePublishToS3: the callback produces the options, *)
(* the required options are validated, the commit SHA is checked; then the *)
(* S3 client is made and pushToS3 is called. The await of the callback is  *)
(* outside the try block: its rejection is the rejection of the executor.  *)
ExecuteGoalStart ==
    /\ pc = "invoked"
    /\ IF HasCallback(params) /\ params.callback = "rejects"
         THEN /\ pc' = "thrown"
              /\ UNCHANGED <<params, goal>>
         ELSE LET data == IF HasCallback(params) THEN CallbackData(params) ELSE params
              IN  /\ params' = data
                  /\ IF MissingProps(data) # <<>>
                       THEN /\ goal' = [code |-> 1,
                                        message |-> RequiredMessage(Head(MissingProps(data)))]
                            /\ pc' = "done"
                       ELSE IF ~inv.sha
                              THEN /\ goal' = [code |-> 99,
                                               message |-> "SHA is not defined. I need that"]
                                   /\ pc' = "done"
                              ELSE /\ pc' = "putFiles"
                                   /\ UNCHANGED goal
    /\ UNCHANGED <<project, inputParams, inv, channel, bucket, run, putVars, gatherVars,
                   deleteVars, result, history, logVars, filterVars, companionVars>>

(* The exception of a callback of doWithFiles escaping the executor.       *)
CallbackThrowsUncaught(f) ==
    /\ pc = "putFiles"
    /\ cb[f] = "content"
    /\ cb' = [cb EXCEPT ![f] = "threw"]
    /\ pc' = "thrown"
    /\ UNCHANGED <<configVars, goalVars, bucket, run, fileCount, keys, warnings,
                   pleaseGiveUp, putInFlight, gatherVars, deleteVars, result, history,
                   logVars, filterVars, companionVars>>

(* An exception in the callback of doWithFiles outside its try block (the  *)
(* read of the content rejects, pathTranslation throws): doWithFiles,      *)
(* putFiles and pushToS3 reject, and the catch block of the executor       *)
(* returns code 98.                                                        *)
CallbackThrows(f) ==
    /\ pc = "putFiles"
    /\ cb[f] = "content"
    /\ cb' = [cb EXCEPT ![f] = "threw"]
    /\ goal' = [code |-> 98, message |-> "e.message"]
    /\ pc' = "done"
    /\ UNCHANGED <<configVars, inv, channel, bucket, run, fileCount, keys, warnings,
                   pleaseGiveUp, putInFlight, gatherVars, deleteVars, result, history,
                   logVars, filterVars, companionVars>>

(* params.pathToIndex is optional: a params record without the field has  *)
(* it undefined.  EmptyPath is the empty string, the path that is falsy.   *)
EmptyPath == 0
IndexPaths == {EmptyPath, MaxFiles}

(* The link made of the path as configured, not of its translation.        *)
linkToIndexUntranslated ==
    IF "pathToIndex" \in DOMAIN params /\ params.pathToIndex # EmptyPath
      THEN result.bucketUrl \o <<params.pathToIndex>>
      ELSE <<>>

(* Lines 108-112: linkToIndex, with <<>> for undefined.                    *)
linkToIndex ==
    IF "pathToIndex" \in DOMAIN params /\ params.pathToIndex # EmptyPath
      THEN result.bucketUrl \o <<Key(params.pathToIndex)>>
      ELSE <<>>

(* Lines 128-131: the result of a successful run; a field that is          *)
(* undefined is a field the record does not have.                          *)
Success ==
    IF linkToIndex # <<>>
      THEN [code |-> 0, externalUrls |-> <<[label |-> params.linkLabel, url |-> linkToIndex]>>]
      ELSE [code |-> 0]

(* Lines 106-131: pushToS3 has resolved.  With warnings the executor sends *)
(* them to the channels and awaits; without, it returns code 0.            *)
PushToS3Resolved ==
    /\ pc = "returned"
    /\ IF Len(result.warnings) > 0
         THEN /\ channel' = Append(channel, [warnings |-> result.warnings,
                                               outcome |-> "pending"])
              /\ pc' = "addressChannels"
              /\ UNCHANGED goal
         ELSE /\ goal' = Success
              /\ pc' = "done"
              /\ UNCHANGED channel
    /\ UNCHANGED <<configVars, inv, bucket, run, putVars, gatherVars, deleteVars,
                   result, history, logVars, filterVars, companionVars>>

ChannelOutcomes == {"ok", "error"}

(* The executor failing the run whenever there are warnings.               *)
AddressChannelsResponseFailsOnWarnings(outcome) ==
    /\ pc = "addressChannels"
    /\ channel' = [channel EXCEPT ![Len(channel)].outcome = outcome]
    /\ goal' = IF outcome = "error" THEN [code |-> 98, message |-> "e.message"]
               ELSE [code |-> 1,
                     message |-> [warnings |-> Len(result.warnings),
                                  including |-> result.warnings[1]]]
    /\ pc' = "done"
    /\ UNCHANGED <<configVars, inv, bucket, run, putVars, gatherVars, deleteVars,
                   result, history, logVars, filterVars, companionVars>>

(* Lines 118-133: inv.addressChannels resolves, or rejects into the catch. *)
AddressChannelsResponse(outcome) ==
    /\ pc = "addressChannels"
    /\ channel' = [channel EXCEPT ![Len(channel)].outcome = outcome]
    /\ goal' = IF outcome = "error" THEN [code |-> 98, message |-> "e.message"]
               ELSE IF result.fileCount = 0
                      THEN [code |-> 1,
                            message |-> [warnings |-> Len(result.warnings),
                                         including |-> result.warnings[1]]]
                      ELSE Success
    /\ pc' = "done"
    /\ UNCHANGED <<configVars, inv, bucket, run, putVars, gatherVars, deleteVars,
                   result, history, logVars, filterVars, companionVars>>

InitGoal ==
    /\ inputParams \in [sync : BOOLEAN, paramsExt : BOOLEAN, pathTranslation : Translations,
                         bucketName : {bucketName}, region : {region},
                         filesToPublish : {"**/*"}]
                       \cup [sync : BOOLEAN, paramsExt : BOOLEAN,
                             pathTranslation : Translations, pathToIndex : IndexPaths,
                             bucketName : {bucketName}, region : {region},
                             filesToPublish : {"**/*"}]
    /\ params = executePublishToS3(inputParams).params
    /\ project \in Projects
    /\ bucket \in {{}, Keys}
    /\ run = 1
    /\ history = <<>>
    /\ NoFilterCall
    /\ inv \in [sha : BOOLEAN]
    /\ goal = None
    /\ channel = <<>>
    /\ cb = [f \in 1..Len(project) |-> "notStarted"]
    /\ fileCount = 0 /\ keys = <<>> /\ warnings = <<>> /\ pleaseGiveUp = FALSE
    /\ putInFlight = [f \in 1..Len(project) |-> None]
    /\ listObjectsResponse = None /\ keysToDelete = <<>> /\ gatherWarnings = <<>>
    /\ listInFlight = None
    /\ i = 0 /\ deleted = 0 /\ deleteWarnings = <<>> /\ deleteInFlight = None
    /\ result = None
    /\ putLog = <<>> /\ listRequests = <<>> /\ listResponses = <<>>
    /\ deleteRequests = <<>> /\ deleteResponses = <<>>
    /\ pc = "invoked"

NextGoal ==
    \/ ExecuteGoalStart
    \/ PutFiles
    \/ PutFilesReturn
    \/ ListResponseBucket
    \/ DeleteKeysCall
    \/ DeleteResponse
    \/ PushToS3Return
    \/ PushToS3Resolved
    \/ \E outcome \in ChannelOutcomes : AddressChannelsResponse(outcome)

SpecGoal == InitGoal /\ [][NextGoal]_vars

(* ---- SpecOptions: executePublishToS3 on options of every shape -------- *)
(* The options of the caller: any of the optional and of the required      *)
(* options may be missing, and there may be a callback.                    *)
WithOption(S, field, values) == S \cup {(field :> v) @@ r : r \in S, v \in values}

InputParams ==
    WithOption(WithOption(WithOption(WithOption(WithOption(WithOption(WithOption(
        {[sync |-> TRUE, paramsExt |-> FALSE]},
        "pathTranslation", {FlattenTo1}),
        "linkLabel", {"Docs"}),
        "pathToIndex", {MaxFiles}),
        "bucketName", {bucketName}),
        "region", {region}),
        "filesToPublish", {"**/*"}),
        "callback", CallbackKinds)

InitOptions ==
    /\ inputParams \in InputParams
    /\ params = None
    /\ project \in UNION {[1..n -> [companion : {Absent}]] : n \in 0..MaxFiles}
    /\ bucket = Keys
    /\ run = 1
    /\ history = <<>>
    /\ NoFilterCall
    /\ inv \in [sha : BOOLEAN]
    /\ goal = None
    /\ channel = <<>>
    /\ cb = [f \in 1..Len(project) |-> "notStarted"]
    /\ fileCount = 0 /\ keys = <<>> /\ warnings = <<>> /\ pleaseGiveUp = FALSE
    /\ putInFlight = [f \in 1..Len(project) |-> None]
    /\ listObjectsResponse = None /\ keysToDelete = <<>> /\ gatherWarnings = <<>>
    /\ listInFlight = None
    /\ i = 0 /\ deleted = 0 /\ deleteWarnings = <<>> /\ deleteInFlight = None
    /\ result = None
    /\ putLog = <<>> /\ listRequests = <<>> /\ listResponses = <<>>
    /\ deleteRequests = <<>> /\ deleteResponses = <<>>
    /\ pc = "registered"

NextOptions ==
    \/ ExecutePublishToS3Call
    \/ ExecuteGoalStart
    \/ PutFiles
    \/ \E f \in 1..NumFiles : CallbackThrows(f)
    \/ PutFilesReturn
    \/ ListResponseBucket
    \/ DeleteKeysCall
    \/ DeleteResponse
    \/ PushToS3Return
    \/ PushToS3Resolved
    \/ \E outcome \in ChannelOutcomes : AddressChannelsResponse(outcome)

SpecOptions == InitOptions /\ [][NextOptions]_vars

(* --- SpecCompanion: gatherParamsFromCompanionFile called directly ----- *)
(* A path is the sequence of its characters.  A file of the project is its *)
(* path and the state of its content.                                      *)
NameChars == {"x", "$", "&"}
Names == UNION {[1..m -> NameChars] : m \in 1..MaxNameLen}
Dirs == {<<>>, <<"d", "/">>}
companionFilePrefix == <<".">>
companionFileExtension == <<".", "s", "3">>
otherExtension == <<".", "s", "4">>

FilePath(file) == file.dir \o file.name

(* The characters of the class [-\\^$*+?.()|[\]{}] that names are made of.   *)
SpecialCharacters == {"$", "."}

(* escapeSpecialCharacters: the RegExp of the name, each special character *)
(* escaped, with the end anchor `$` appended: one element per character.   *)
escapeSpecialCharacters(filename) ==
    [j \in DOMAIN filename |->
        [char |-> filename[j], escaped |-> filename[j] \in SpecialCharacters]]

(* Whether an element of the RegExp matches a character: an escaped one    *)
(* and a plain one match themselves, a bare `.` anything, a bare `$` none. *)
ElementMatches(element, c) ==
    IF element.escaped THEN c = element.char
    ELSE IF element.char = "." THEN TRUE
    ELSE IF element.char = "$" THEN FALSE
    ELSE c = element.char

(* The index of the match of the anchored RegExp in the string, or -1.     *)
MatchIndex(str, regexp) ==
    LET k == Len(str) - Len(regexp)
    IN  IF k >= 0 /\ \A j \in DOMAIN regexp : ElementMatches(regexp[j], str[k + j])
          THEN k ELSE 0 - 1

(* The replacement string of String.prototype.replace as it is applied:    *)
(* $$ is a dollar, $& the match, $` what precedes it, $' what follows it.  *)
RECURSIVE GetSubstitution(_, _, _, _)
GetSubstitution(replacement, matched, before, after) ==
    IF replacement = <<>> THEN <<>>
    ELSE IF Head(replacement) = "$" /\ Len(replacement) >= 2
      THEN LET c == replacement[2]
               rest == SubSeq(replacement, 3, Len(replacement))
           IN  CASE c = "$" -> <<"$">> \o GetSubstitution(rest, matched, before, after)
                 [] c = "&" -> matched \o GetSubstitution(rest, matched, before, after)
                 [] c = "`" -> before \o GetSubstitution(rest, matched, before, after)
                 [] c = "'" -> after \o GetSubstitution(rest, matched, before, after)
                 [] OTHER -> <<"$">> \o
                             GetSubstitution(Tail(replacement), matched, before, after)
      ELSE <<Head(replacement)>> \o
           GetSubstitution(Tail(replacement), matched, before, after)

(* str.replace(regexp, replacement) for the anchored RegExp of a name.     *)
Replace(str, regexp, replacement) ==
    LET k == MatchIndex(str, regexp)
    IN  IF k < 0 THEN str
        ELSE LET before == SubSeq(str, 1, k)
                 matched == SubSeq(str, k + 1, k + Len(regexp))
                 after == SubSeq(str, k + Len(regexp) + 1, Len(str))
             IN  before \o GetSubstitution(replacement, matched, before, after) \o after

(* Lines 67-69: the path at which the companion file is looked up.         *)
paramsPath(file) ==
    Replace(FilePath(file), escapeSpecialCharacters(file.name),
            companionFilePrefix \o file.name \o companionFileExtension)

(* project.getFile(path): the files of the project at exactly that path.   *)
getFile(path) == {file \in cfFiles : file.path = path}

ExactPath(file) == file.dir \o companionFilePrefix \o file.name \o companionFileExtension
ElsewherePath(file) ==
    <<"e", "/">> \o companionFilePrefix \o file.name \o companionFileExtension
OtherExtensionPath(file) == file.dir \o companionFilePrefix \o file.name \o otherExtension

Contents(tag) == {[state |-> "malformed"], [state |-> "valid", overrides |-> [Tag |-> tag]]}

InitCompanion ==
    /\ params = [sync |-> FALSE, paramsExt |-> TRUE, pathTranslation |-> Identity]
    /\ project = <<>>
    /\ cb = <<>>
    /\ pc = "companion"
    /\ cfFile \in [dir : Dirs, name : Names]
    /\ \E exact \in SUBSET Contents("exact"), elsewhere \in SUBSET Contents("elsewhere"),
          other \in SUBSET Contents("otherExtension"), lookedUp \in SUBSET Contents("lookedUp") :
          /\ Cardinality(exact) <= 1 /\ Cardinality(elsewhere) <= 1
          /\ Cardinality(other) <= 1 /\ Cardinality(lookedUp) <= 1
          /\ paramsPath(cfFile) = ExactPath(cfFile) => lookedUp = {}
          /\ cfFiles = {[path |-> ExactPath(cfFile), content |-> c] : c \in exact}
                       \cup {[path |-> ElsewherePath(cfFile), content |-> c] : c \in elsewhere}
                       \cup {[path |-> OtherExtensionPath(cfFile), content |-> c] : c \in other}
                       \cup {[path |-> paramsPath(cfFile), content |-> c] : c \in lookedUp}
    /\ cfResult = None
    /\ fkObjects = <<>> /\ fkResult = None
    /\ DirectCall
    /\ fileCount = 0 /\ keys = <<>> /\ warnings = <<>> /\ pleaseGiveUp = FALSE
    /\ putInFlight = <<>>
    /\ putLog = <<>>
    /\ bucket = {}
    /\ run = 1
    /\ history = <<>>
    /\ listObjectsResponse = None /\ keysToDelete = <<>> /\ gatherWarnings = <<>>
    /\ listInFlight = None
    /\ i = 0 /\ deleted = 0 /\ deleteWarnings = <<>> /\ deleteInFlight = None
    /\ result = None
    /\ listRequests = <<>> /\ listResponses = <<>>
    /\ deleteRequests = <<>> /\ deleteResponses = <<>>

(* Lines 63-83: gatherParamsFromCompanionFile(project, log, file, ext).    *)
GatherParamsCall ==
    /\ pc = "companion"
    /\ cfResult' =
          LET paramsFile == getFile(paramsPath(cfFile))
          IN  IF paramsFile = {} THEN <<EmptyParams, <<>>>>
              ELSE LET content == (CHOOSE file \in paramsFile : TRUE).content
                   IN  IF content.state = "valid"
                         THEN <<content.overrides, <<>>>>
                         ELSE <<EmptyParams, <<ParamsWarning(paramsPath(cfFile))>>>>
    /\ pc' = "companionDone"
    /\ UNCHANGED <<configVars, goalVars, bucket, run, putVars, gatherVars, deleteVars, result,
                   history, logVars, filterVars, cfFile, cfFiles>>

NextCompanion == GatherParamsCall

SpecCompanion == InitCompanion /\ [][NextCompanion]_vars

(* ======================================================================= *)
(*                               The claims                                *)
(* ======================================================================= *)
SucceededKeys == {Key(f) : f \in {g \in 1..NumFiles : cb[g] = "succeeded"}}
Count(s, x) == Cardinality({j \in DOMAIN s : s[j] = x})
NthOf(S, n) == CHOOSE x \in S : Cardinality({y \in S : y < x}) = n - 1

(* C1: filterKeys(keysToKeep, objects) is exactly the objects whose Key is *)
(* present, non-empty and not in keysToKeep, each reduced to { Key }, in   *)
(* the order of objects; no other attribute of an object plays a part.     *)
C1_FilterKeysIsOrderedDifference ==
    pc = "filtered" =>
        LET kept == {j \in DOMAIN fkObjects :
                        /\ "Key" \in DOMAIN fkObjects[j]
                        /\ fkObjects[j].Key # EmptyKey
                        /\ fkObjects[j].Key \notin Range(keys)}
        IN  /\ Len(fkResult.value) = Cardinality(kept)
            /\ \A n \in 1..Len(fkResult.value) :
                  fkResult.value[n] = [Key |-> fkObjects[NthOf(kept, n)].Key]

C1_Witness ==
    /\ pc = "filtered"
    /\ Len(fkResult.value) = 2
    /\ \E j \in DOMAIN fkObjects : "Key" \notin DOMAIN fkObjects[j]
    /\ \E j \in DOMAIN fkObjects :
          "Key" \in DOMAIN fkObjects[j] /\ DOMAIN fkObjects[j] # {"Key"}
             /\ [Key |-> fkObjects[j].Key] \in Range(fkResult.value)

(* C2: once the put of a file has failed with InvalidAccessKeyId, no put   *)
(* request is issued for a file after it, and at most k-1 keys are pushed  *)
(* when that file is the k-th.                                             *)
C2_GiveUpPropagation ==
    /\ \A n \in DOMAIN putLog : \A k \in putLog[n].gaveUp : putLog[n].path < k
    /\ \A k \in 1..NumFiles :
          (pc # "putFiles" /\ cb[k] = "gaveUp") => Len(keys) <= k - 1

(* C3: after a give-up, a run with sync on deletes no remote object whose  *)
(* key is the key of a local file that was skipped or whose put failed     *)
(* with the credential error.                                              *)
C3_OutageNotMisreadAsRemoval ==
    \A n \in DOMAIN deleteResponses :
        ~deleteResponses[n].failed =>
            \A o \in Range(deleteResponses[n].Deleted) :
                ~\E f \in 1..NumFiles : cb[f] \in {"skipped", "gaveUp"} /\ Key(f) = o.Key

(* C4, as claimed: keysToKeep holds exactly the keys whose put succeeded   *)
(* and never the key of a file whose put failed or that was skipped.       *)
C4_FailedKeyNeverKept ==
    /\ Range(keys) = SucceededKeys
    /\ \A f \in 1..NumFiles :
          cb[f] \in {"failed", "gaveUp", "skipped"} => Key(f) \notin Range(keys)

(* C4, amended: keysToKeep is the list of pathTranslation(path) of the     *)
(* files whose put succeeded, one entry per file; a file whose put failed  *)
(* or that was skipped adds none, so a listed object with a key that no    *)
(* successfully put file has is a deletion candidate.                      *)
C4_KeysToKeepAreSucceededPuts ==
    /\ \A k \in Keys :
          Count(keys, k) = Cardinality({f \in 1..NumFiles :
                                           cb[f] = "succeeded" /\ Key(f) = k})
    /\ \A n \in DOMAIN listResponses :
          ~listResponses[n].failed =>
              \A o \in Range(listResponses[n].Contents) :
                  o.Key \notin SucceededKeys => Includes(keysToDelete, [Key |-> o.Key])

C4_Witness ==
    /\ pc = "gathered"
    /\ \E f \in 1..NumFiles : \E g \in 1..NumFiles :
          /\ cb[f] = "failed"
          /\ cb[g] = "succeeded"
          /\ Key(f) # Key(g)
          /\ Includes(keysToDelete, [Key |-> Key(f)])

(* C5: every object identifier of every delete request has a present,      *)
(* non-empty Key, and no deletion candidate is without one.                *)
C5_DeleteRequestsCarryKeys ==
    /\ \A o \in Range(keysToDelete) : "Key" \in DOMAIN o /\ o.Key # EmptyKey
    /\ \A n \in DOMAIN deleteRequests :
          \A o \in Range(deleteRequests[n]) : "Key" \in DOMAIN o /\ o.Key # EmptyKey

C5_Witness ==
    /\ deleteRequests # <<>>
    /\ \E n \in DOMAIN listResponses :
          /\ ~listResponses[n].failed
          /\ \E o \in Range(listResponses[n].Contents) : "Key" \notin DOMAIN o
          /\ \E o \in Range(listResponses[n].Contents) :
                "Key" \in DOMAIN o /\ o.Key = EmptyKey

Pages == [n \in DOMAIN listResponses |->
             IF listResponses[n].failed THEN <<>>
             ELSE filterKeys(keys, listResponses[n].Contents)]
ListFailed == \E n \in DOMAIN listResponses : listResponses[n].failed
GatherOver == pc \in {"gathered", "deleteKeys", "deleted", "returned"}

(* C6: when no list request fails, gatherKeysToDelete sends one list       *)
(* request per page, stops at the first page that is not truncated, and    *)
(* returns the concatenation, in page order, of filterKeys over the pages. *)
C6_Pagination ==
    (~ListFailed /\ pc \in {"gather", "gathered", "deleteKeys", "deleted", "returned"}) =>
        /\ keysToDelete = Flatten(Pages)
        /\ \A n \in DOMAIN listResponses :
              listResponses[n].IsTruncated <=> n < Len(listRequests)
        /\ Len(listRequests) = Len(listResponses) + (IF pc = "gather" THEN 1 ELSE 0)
        /\ GatherOver => listResponses # <<>>

C6_Witness ==
    /\ pc = "gathered"
    /\ ~ListFailed
    /\ Len(listResponses) = 2
    /\ Pages[1] # <<>> /\ Pages[2] # <<>>
    /\ Len(listResponses[1].Contents) > Len(Pages[1])

(* C7: a failed list request adds exactly one warning and ends the         *)
(* listing: no list request follows it, the candidates of the pages listed *)
(* before it are returned, and pushToS3 hands them to deleteKeys.          *)
C7_ListFailure ==
    ListFailed =>
        /\ listResponses[Len(listResponses)].failed
        /\ \A n \in 1..(Len(listResponses) - 1) : ~listResponses[n].failed
        /\ Len(listRequests) = Len(listResponses)
        /\ gatherWarnings = <<ListWarning>>
        /\ GatherOver
        /\ keysToDelete = Flatten(Pages)
        /\ (pc # "gathered" /\ keysToDelete # <<>>) =>
              /\ deleteRequests # <<>>
              /\ deleteRequests[1] = SubSeq(keysToDelete, 1, Min(maxItems, Len(keysToDelete)))
        /\ pc = "returned" =>
              Count(result.warnings, ListWarning) = 1

C7_Witness ==
    /\ ListFailed
    /\ Len(listResponses) = 2
    /\ keysToDelete # <<>>
    /\ deleteRequests # <<>>

DeleteFailed == \E n \in DOMAIN deleteResponses : deleteResponses[n].failed
Sizes(ss) == [n \in DOMAIN ss |-> Len(ss[n])]
CeilDiv(a, b) == (a + b - 1) \div b

(* C8: deleteKeys sends the candidates in consecutive chunks, in order: at *)
(* most 1000 objects a request, exactly 1000 in every request but the      *)
(* last, and, when no request fails, ceil(n/1000) requests that together   *)
(* are the candidate list (2500 candidates: 1000, 1000, 500).              *)
C8_Chunks ==
    /\ \A n \in DOMAIN deleteRequests :
          /\ Len(deleteRequests[n]) <= 1000
          /\ Len(deleteRequests[n]) >= 1
          /\ n < Len(deleteRequests) => Len(deleteRequests[n]) = 1000
    /\ \E m \in 0..Len(keysToDelete) : Flatten(deleteRequests) = SubSeq(keysToDelete, 1, m)
    /\ (pc \in {"deleted", "returned"} /\ ~DeleteFailed) =>
          /\ Flatten(deleteRequests) = keysToDelete
          /\ Len(deleteRequests) = CeilDiv(Len(keysToDelete), 1000)
          /\ Len(keysToDelete) = 2500 => Sizes(deleteRequests) = <<1000, 1000, 500>>

C8_Witness ==
    /\ pc = "deleted"
    /\ ~DeleteFailed
    /\ Len(keysToDelete) = 2500
    /\ Sizes(deleteRequests) = <<1000, 1000, 500>>

RECURSIVE SumDeleted(_)
SumDeleted(rs) ==
    IF rs = <<>> THEN 0
    ELSE (IF Head(rs).failed THEN 0 ELSE Len(Head(rs).Deleted)) + SumDeleted(Tail(rs))

(* C9: a delete request that throws adds exactly one warning, for its own  *)
(* batch, and ends deleteKeys: no later chunk is requested and the total   *)
(* of the batches deleted before it is returned.                           *)
C9_BatchFailure ==
    DeleteFailed =>
        LET last == Len(deleteResponses)
        IN  /\ deleteResponses[last].failed
            /\ \A n \in 1..(last - 1) : ~deleteResponses[n].failed
            /\ Len(deleteRequests) = last
            /\ pc \in {"deleted", "returned"}
            /\ Cardinality({n \in DOMAIN deleteWarnings :
                               deleteWarnings[n].type = "deleteBatch"}) = 1
            /\ deleteWarnings[Len(deleteWarnings)] = DeleteBatchWarning(deleteRequests[last])
            /\ deleted = SumDeleted(deleteResponses)
            /\ pc = "returned" => result.deleted = SumDeleted(deleteResponses)

C9_Witness ==
    /\ pc = "returned"
    /\ Len(deleteResponses) = 2
    /\ deleteResponses[2].failed
    /\ Len(keysToDelete) > 2 * maxItems
    /\ result.deleted = maxItems

(* C10: two runs in a row on the same files with sync on, every request    *)
(* succeeding: the second run deletes nothing and counts the same files.   *)
C10_SecondRunDeletesNothing ==
    (/\ run = 2
     /\ pc = "returned"
     /\ params.sync
     /\ history[1].warnings = <<>>
     /\ result.warnings = <<>>) =>
        /\ result.deleted = 0
        /\ result.fileCount = history[1].fileCount

AllRequestsSucceeded ==
    /\ \A f \in 1..NumFiles : cb[f] = "succeeded"
    /\ \A n \in DOMAIN listResponses : ~listResponses[n].failed
    /\ \A n \in DOMAIN deleteResponses :
          ~deleteResponses[n].failed /\ deleteResponses[n].Errors = <<>>

(* C11: after a run with sync on in which every put, list and delete       *)
(* request succeeds with no per-object error, the keys of the bucket are   *)
(* exactly the keys pathTranslation(path) of the selected files, whatever  *)
(* the bucket held before.                                                 *)
C11_Convergence ==
    (pc = "returned" /\ params.sync /\ AllRequestsSucceeded) =>
        bucket = {Key(f) : f \in 1..NumFiles}

Outstanding ==
    Cardinality({f \in 1..NumFiles : putInFlight[f] # None})
    + (IF listInFlight # None THEN 1 ELSE 0)
    + (IF deleteInFlight # None THEN 1 ELSE 0)
Suspended == {f \in 1..NumFiles : cb[f] \in {"content", "put"}}

(* C12: within a run the files are processed one at a time: at most one    *)
(* put, list or delete request is outstanding at any moment, and no        *)
(* callback of putFiles is past its entry while the callback of another    *)
(* file is suspended at an await.                                          *)
C12_OneAtATime ==
    /\ Outstanding <= 1
    /\ Cardinality(Suspended) <= 1

NoPutSucceeded == \A f \in 1..NumFiles : cb[f] # "succeeded"
Delivered == \A n \in DOMAIN channel : channel[n].outcome # "error"

(* C13: a run that ends with at least one warning and without a single     *)
(* successful put is reported as failed by the goal executor (code 1, or   *)
(* code 98 when the warnings could not be sent), also when puts were       *)
(* attempted and every one of them failed.                                 *)
C13_FailWhenNoSuccess ==
    (pc = "done" /\ inv.sha /\ Len(result.warnings) > 0 /\ NoPutSucceeded) =>
        goal.code # 0

FilesWhere(st) == {f \in 1..NumFiles : cb[f] = st}
PutWarnings == {n \in DOMAIN warnings : warnings[n].type = "put"}

(* C16: a put that fails with an error other than a credential error adds  *)
(* exactly one warning, naming the path and the key in the bucket, and no  *)
(* key; it does not set the give-up flag, so that every other selected     *)
(* file is still attempted.                                                *)
C16_PutFailureIsLocal ==
    /\ \A f \in FilesWhere("failed") : Count(warnings, PutWarning(f, Key(f))) = 1
    /\ Cardinality(PutWarnings) = Cardinality(FilesWhere("failed") \cup FilesWhere("gaveUp"))
    /\ Len(keys) = Cardinality(FilesWhere("succeeded"))
    /\ pleaseGiveUp <=> FilesWhere("gaveUp") # {}
    /\ FilesWhere("gaveUp") = {} => FilesWhere("skipped") = {}
    /\ (pc # "putFiles" /\ FilesWhere("gaveUp") = {}) =>
          /\ \A f \in 1..NumFiles : \E n \in DOMAIN putLog : putLog[n].path = f
          /\ fileCount = NumFiles

C16_Witness ==
    /\ pc = "returned"
    /\ cb = <<"failed", "succeeded">>
    /\ \E n \in DOMAIN putLog : putLog[n].path = 2 /\ 1 \in putLog[n].failed
    /\ warnings = <<PutWarning(1, Key(1))>>
    /\ keys = <<Key(2)>>

(* C17: once a credential failure has set the give-up flag, nothing is     *)
(* added to what putFiles returns: the warnings, the keys and fileCount    *)
(* stay as they were when the failed put was handled.                      *)
C17_NothingAddedAfterGiveUp ==
    [][pleaseGiveUp => (warnings' = warnings /\ keys' = keys /\ fileCount' = fileCount)]_vars

BaseFields == {"Bucket", "Key", "Body", "ContentType"}
Overrides(f) ==
    IF params.paramsExt /\ project[f].companion.state = "valid"
      THEN project[f].companion.overrides
      ELSE EmptyParams

(* C18: the put request of a file is its base fields Bucket, Key, Body and *)
(* ContentType merged with the overrides of its descriptor: a field of the *)
(* descriptor is sent with the descriptor's value, also when it is a base  *)
(* field (ContentType replaces the inferred type), and a base field the    *)
(* descriptor does not name is sent with its base value.                   *)
C18_OverridePrecedence ==
    \A n \in DOMAIN putLog :
        LET f == putLog[n].path
            request == putLog[n].request
        IN  /\ DOMAIN request = BaseFields \cup DOMAIN Overrides(f)
            /\ \A field \in DOMAIN Overrides(f) : request[field] = Overrides(f)[field]
            /\ \A field \in BaseFields \ DOMAIN Overrides(f) :
                  request[field] = BaseParams(f)[field]

C18_Witness ==
    \E n \in DOMAIN putLog :
        /\ putLog[n].path = 1
        /\ ContentType(1) = "text/html"
        /\ putLog[n].request.ContentType = "application/custom"
        /\ putLog[n].request.WebsiteRedirectLocation = "/melba.html"
        /\ putLog[n].request.Key = Key(1)
        /\ cb[1] = "succeeded"

MalformedFiles ==
    {f \in 1..NumFiles : params.paramsExt /\ project[f].companion.state = "malformed"}
ParamsWarnings == {n \in DOMAIN warnings : warnings[n].type = "params"}

(* C19: a file whose descriptor exists and is not valid JSON gets exactly  *)
(* one warning naming the descriptor, and is still submitted to put, with  *)
(* the base fields Bucket, Key, Body and ContentType only.                 *)
C19_MalformedDescriptorTolerated ==
    /\ \A f \in MalformedFiles :
          IF cb[f] \in {"put", "succeeded", "failed", "gaveUp"}
            THEN /\ Count(warnings, ParamsWarning(f)) = 1
                 /\ Cardinality({n \in DOMAIN putLog : putLog[n].path = f}) = 1
                 /\ \A n \in DOMAIN putLog :
                       putLog[n].path = f => putLog[n].request = BaseParams(f)
            ELSE Count(warnings, ParamsWarning(f)) = 0
    /\ \A n \in ParamsWarnings : warnings[n].path \in MalformedFiles

C19_Witness ==
    /\ pc = "returned"
    /\ 1 \in MalformedFiles
    /\ cb[1] = "succeeded"
    /\ Key(1) \in bucket
    /\ result.warnings = <<ParamsWarning(1)>>

ExactFile == {file \in cfFiles : file.path = ExactPath(cfFile)}

(* C20: the overrides of a file dir/X come from the descriptor at exactly  *)
(* dir/.X<paramsExt> and from no other file: a descriptor of that name in  *)
(* another directory, one with another extension, or no descriptor at all  *)
(* gives empty overrides and no warning.                                   *)
C20_DescriptorPairing ==
    pc = "companionDone" =>
        IF ExactFile = {}
          THEN cfResult = <<EmptyParams, <<>>>>
          ELSE \A file \in ExactFile :
                  IF file.content.state = "valid"
                    THEN cfResult = <<file.content.overrides, <<>>>>
                    ELSE cfResult = <<EmptyParams, <<ParamsWarning(ExactPath(cfFile))>>>>

ObjectWarnings == SelectSeq(deleteWarnings, LAMBDA w : w.type = "deleteObject")
RECURSIVE ReportedErrors(_)
ReportedErrors(rs) ==
    IF rs = <<>> THEN <<>>
    ELSE (IF Head(rs).failed THEN <<>>
          ELSE [j \in DOMAIN Head(rs).Errors |-> DeleteObjectWarning(Head(rs).Errors[j].Key)])
         \o ReportedErrors(Tail(rs))

(* C22: the objects a successful delete response reports in Errors each    *)
(* add one warning, in order; the loop goes on to the next chunk after     *)
(* such a response; and the entries of Deleted of that response are added  *)
(* to the count in full.                                                   *)
C22_ObjectErrorsAreWarningsOnly ==
    /\ ObjectWarnings = ReportedErrors(deleteResponses)
    /\ \A n \in DOMAIN deleteResponses :
          (~deleteResponses[n].failed /\ deleteResponses[n].Errors # <<>>) =>
              /\ (n * maxItems < Len(keysToDelete) => Len(deleteRequests) > n)
              /\ deleted >= SumDeleted(SubSeq(deleteResponses, 1, n - 1))
                            + Len(deleteResponses[n].Deleted)

(* Three chunks; the first two responses each report one object in Errors  *)
(* and the third chunk was still requested and deleted.                    *)
C22_Witness ==
    /\ pc = "returned"
    /\ Len(keysToDelete) = 2 * maxItems + 1
    /\ Len(deleteResponses) = 3
    /\ \A n \in 1..2 : ~deleteResponses[n].failed /\ Len(deleteResponses[n].Errors) = 1
    /\ ~deleteResponses[3].failed /\ deleteResponses[3].Errors = <<>>
    /\ Len(ObjectWarnings) = 2
    /\ result.deleted = 2 * maxItems - 1

(* ------------------------------- C23 ---------------------------------- *)
Succeeded(rs) == SelectSeq(rs, LAMBDA r : ~r.failed)

(* C23: the count of deleteKeys is at every moment the sum of the lengths  *)
(* of the Deleted lists of the successful responses received so far, so a  *)
(* failed batch adds nothing; no step of a run lowers it; and the result   *)
(* of pushToS3 reports that count.                                         *)
C23_DeletedIsSumOfConfirmed ==
    [][/\ deleted' >= deleted
       /\ deleted' = SumDeleted(Succeeded(deleteResponses'))
       /\ deleted' - deleted =
             (IF Len(deleteResponses') > Len(deleteResponses)
                   /\ ~deleteResponses'[Len(deleteResponses')].failed
                THEN Len(deleteResponses'[Len(deleteResponses')].Deleted) ELSE 0)
       /\ (pc' = "returned" => result'.deleted = deleted')]_vars

(* Two batches deleted, the second short of one object reported in Errors, *)
(* and the third batch failed: the count is that of the first two.         *)
C23_Witness ==
    /\ pc = "returned"
    /\ Len(keysToDelete) = 3 * maxItems
    /\ Len(deleteResponses) = 3
    /\ ~deleteResponses[1].failed /\ deleteResponses[1].Errors = <<>>
    /\ ~deleteResponses[2].failed /\ Len(deleteResponses[2].Errors) = 1
    /\ deleteResponses[3].failed
    /\ result.deleted = 2 * maxItems - 1

(* ------------------------------- C24 ---------------------------------- *)
(* C24: with sync off pushToS3 sends no list request and no delete         *)
(* request, its result has deleted = 0 and the warnings of putFiles and no *)
(* other, and a step changes the bucket only by adding the key of a put    *)
(* request that succeeds: no object leaves the bucket.                     *)
C24_NoSyncNoListNoDelete ==
    [][~params.sync =>
         /\ listRequests' = <<>> /\ listInFlight' = None
         /\ deleteRequests' = <<>> /\ deleteInFlight' = None
         /\ deleted' = 0 /\ gatherWarnings' = <<>> /\ deleteWarnings' = <<>>
         /\ (pc' = "returned" => result'.deleted = 0 /\ result'.warnings = warnings')
         /\ bucket \subseteq bucket'
         /\ bucket' \ bucket \subseteq
               {putInFlight[f].Key : f \in {g \in 1..NumFiles : putInFlight[g] # None
                                                               /\ cb'[g] = "succeeded"}}]_vars

(* A run with sync off over a bucket that held every key: one put has      *)
(* succeeded and one has failed, and the stale objects are still there.    *)
C24_Witness ==
    /\ ~params.sync
    /\ pc = "returned"
    /\ Keys \subseteq bucket
    /\ FilesWhere("succeeded") # {} /\ FilesWhere("failed") # {}
    /\ Keys \ {Key(f) : f \in 1..NumFiles} # {}
    /\ result.deleted = 0
    /\ Len(result.warnings) = 1

(* ------------------------------- C25 ---------------------------------- *)
Phase(w) == CASE w.type \in {"put", "params"} -> 1
              [] w.type = "list" -> 2
              [] w.type \in {"deleteBatch", "deleteObject"} -> 3
FailedResponses(rs) == Len(SelectSeq(rs, LAMBDA r : r.failed))

(* C25: the warnings of the result are those of putFiles in the order they *)
(* were pushed, then those of gatherKeysToDelete, then those of            *)
(* deleteKeys; every failed put, failed list request, failed delete batch  *)
(* and object reported in Errors has its warning there, and no warning of  *)
(* a later phase stands before one of an earlier phase.                    *)
C25_WarningsInPhaseOrder ==
    pc = "returned" =>
        /\ result.warnings = warnings \o gatherWarnings \o deleteWarnings
        /\ \A m, n \in DOMAIN result.warnings :
              m < n => Phase(result.warnings[m]) <= Phase(result.warnings[n])
        /\ Len(SelectSeq(result.warnings, LAMBDA w : w.type = "put"))
             = Cardinality(FilesWhere("failed") \cup FilesWhere("gaveUp"))
        /\ Len(SelectSeq(result.warnings, LAMBDA w : w.type = "list"))
             = FailedResponses(listResponses)
        /\ SelectSeq(result.warnings, LAMBDA w : w.type = "deleteObject")
             = ReportedErrors(deleteResponses)
        /\ Len(SelectSeq(result.warnings, LAMBDA w : w.type = "deleteBatch"))
             = FailedResponses(deleteResponses)

(* A failed put, then a second list request that failed, then a delete     *)
(* response with an object in Errors: three warnings, one of each phase.   *)
C25_Witness ==
    /\ pc = "returned"
    /\ Len(result.warnings) = 3
    /\ result.warnings[1].type = "put"
    /\ result.warnings[2].type = "list"
    /\ result.warnings[3].type = "deleteObject"

(* ------------------------------- C26 ---------------------------------- *)
PutsOver == \A f \in 1..NumFiles : Done(f) /\ putInFlight[f] = None
ListsOver == listInFlight = None /\ Len(listResponses) = Len(listRequests)

(* C26: putFiles runs in every run, sync or not: pushToS3 is past it only  *)
(* when the callback of every file has finished. A list request exists     *)
(* only when every put request has been answered, and a delete request     *)
(* only when every list request has been answered; no put is sent after a  *)
(* list request and no list request after a delete request.                *)
C26_PhaseOrdering ==
    [][/\ pc' # "putFiles" => PutsOver'
       /\ listRequests' # <<>> => PutsOver'
       /\ deleteRequests' # <<>> => PutsOver' /\ ListsOver'
       /\ Len(putLog') > Len(putLog) => listRequests = <<>> /\ deleteRequests = <<>>
       /\ Len(listRequests') > Len(listRequests) => PutsOver /\ deleteRequests = <<>>
       /\ Len(deleteRequests') > Len(deleteRequests) => PutsOver /\ ListsOver]_vars

(* Two puts, then a list request, then a delete request, and the return.   *)
C26_Witness ==
    /\ pc = "returned"
    /\ params.sync
    /\ Len(putLog) = 2
    /\ Len(listRequests) = 1
    /\ Len(deleteRequests) = 1

(* ------------------------------- C27 ---------------------------------- *)
(* C27: within a run no step clears pleaseGiveUp once it is set, and it is *)
(* set only by a put of that run failing on the credentials; a new run     *)
(* starts with the flag unset whatever the run before did, so a file of    *)
(* the new run is skipped only after a credential failure of the new run.  *)
C27_GiveUpIsRunScopedLatch ==
    [][/\ (run' = run /\ pleaseGiveUp) => pleaseGiveUp'
       /\ run' # run => ~pleaseGiveUp'
       /\ pleaseGiveUp' => FilesWhere("gaveUp")' # {}
       /\ FilesWhere("skipped")' # {} => FilesWhere("gaveUp")' # {}]_vars

(* The first run gave up before the second file; the second run put both   *)
(* files.                                                                  *)
C27_Witness ==
    /\ run = 2
    /\ NumFiles = 2
    /\ history[1].fileCount = 1
    /\ ~pleaseGiveUp
    /\ FilesWhere("succeeded") = {1, 2}
    /\ Len(putLog) = 2

(* ------------------------------- C28 ---------------------------------- *)
Attempted == FilesWhere("succeeded") \cup FilesWhere("failed") \cup FilesWhere("gaveUp")

C28_WitnessSkipped ==
    /\ pc = "returned"
    /\ NumFiles = 4
    /\ FilesWhere("skipped") = {4}
    /\ result.fileCount = 3

(* ------------------------------- C29 ---------------------------------- *)
(* C29: the fileCount of the result of pushToS3 is the number of files     *)
(* whose put succeeded, which is the length of the keys to keep; a failed  *)
(* put adds a warning and leaves fileCount as it was.                      *)
C29_FileCountCountsSuccesses ==
    pc = "returned" =>
        /\ result.fileCount = Len(keys)
        /\ result.fileCount = Cardinality(FilesWhere("succeeded"))

(* ------------------------------- C30 ---------------------------------- *)
HasLink == "externalUrls" \in DOMAIN goal
PathToIndexSet == "pathToIndex" \in DOMAIN params

(* C30 as stated: the result of the goal has an external link exactly when *)
(* pathToIndex is set, the link being bucketUrl followed by                *)
(* pathTranslation(pathToIndex).                                           *)
C30_LinkIffPathToIndex ==
    pc = "done" =>
        /\ HasLink <=> PathToIndexSet
        /\ HasLink => goal.externalUrls[1].url
                        = bucketUrl \o <<params.pathTranslation[params.pathToIndex]>>

(* C30: a result with code 0 has an external link exactly when pathToIndex *)
(* is a non-empty string; there is then one link, labelled linkLabel, to   *)
(* bucketUrl followed by pathTranslation(pathToIndex). A result with       *)
(* another code has no link, and without pathToIndex no result has one.    *)
C30_LinkOnSuccessIffPathToIndex ==
    pc = "done" =>
        /\ goal.code = 0 =>
              (HasLink <=> (PathToIndexSet /\ params.pathToIndex # EmptyPath))
        /\ goal.code # 0 => ~HasLink
        /\ HasLink => goal.externalUrls
                        = <<[label |-> "S3 Website",
                             url |-> bucketUrl
                                     \o <<params.pathTranslation[params.pathToIndex]>>]>>

(* A successful run with warnings whose link is to the translation of      *)
(* pathToIndex, which differs from pathToIndex.                            *)
C30_Witness ==
    /\ pc = "done"
    /\ goal.code = 0
    /\ PathToIndexSet
    /\ params.pathToIndex # EmptyPath
    /\ params.pathTranslation[params.pathToIndex] # params.pathToIndex
    /\ HasLink
    /\ goal.externalUrls[1].url = bucketUrl \o <<1>>
    /\ channel # <<>>

(* ------------------------------- C31 ---------------------------------- *)
(* C31: the first list request of a run has no continuation token; every   *)
(* later list request follows a response that succeeded and was truncated  *)
(* and carries the NextContinuationToken of that response; every list      *)
(* request names the bucket and asks for maxItems = 1000 entries.          *)
C31_TokensChain ==
    \A n \in DOMAIN listRequests :
        /\ listRequests[n].Bucket = bucketName
        /\ listRequests[n].MaxKeys = 1000
        /\ n = 1 => listRequests[n].ContinuationToken = Undefined
        /\ n > 1 =>
              /\ ~listResponses[n - 1].failed
              /\ listResponses[n - 1].IsTruncated
              /\ listRequests[n].ContinuationToken
                   = listResponses[n - 1].NextContinuationToken

(* A second list request carrying the token 2 of the truncated first page. *)
C31_Witness ==
    /\ Len(listRequests) = 2
    /\ listRequests[1].ContinuationToken = Undefined
    /\ listResponses[1].NextContinuationToken = 2
    /\ listRequests[2].ContinuationToken = 2
    /\ pc = "returned"

(* ------------------------------- C35 ---------------------------------- *)
PutKeys == {putLog[m].request.Key : m \in {n \in DOMAIN putLog : cb[putLog[n].path] = "succeeded"}}
KeyOverridden ==
    /\ params.paramsExt
    /\ \E f \in 1..NumFiles : /\ project[f].companion.state = "valid"
                               /\ "Key" \in DOMAIN project[f].companion.overrides

(* C35: no delete request of a run names the Key of a put request that     *)
(* succeeded in that run, whatever the companion files override, the Key   *)
(* included.                                                               *)
C35_NoPutObjectDeleted ==
    \A n \in DOMAIN deleteRequests :
        \A o \in Range(deleteRequests[n]) : o.Key \notin PutKeys

(* ------------------------------- C36 ---------------------------------- *)
PutWarningsOf(f) == {n \in PutWarnings : warnings[n].path = f}
KeysOf(k) == {n \in DOMAIN keys : keys[n] = k}

DeleteKeysEntered == pc \in {"deleteKeys", "deleted", "returned"} /\ params.sync

(* C38: called with an empty list of candidates, deleteKeys sends no       *)
(* delete request and returns at once with deleted = 0 and no warning, so  *)
(* the result of the run has deleted = 0 and no deletion warning.          *)
C38_NoCandidatesNoDelete ==
    (DeleteKeysEntered /\ keysToDelete = <<>>) =>
        /\ pc # "deleteKeys"
        /\ deleteRequests = <<>> /\ deleteInFlight = None
        /\ deleted = 0 /\ deleteWarnings = <<>>
        /\ pc = "returned" =>
              /\ result.deleted = 0
              /\ result.warnings = warnings \o gatherWarnings

(* Every object the listing returned was put in this run: no candidate,    *)
(* no delete request.                                                      *)
C38_Witness ==
    /\ pc = "returned"
    /\ params.sync
    /\ ~ListFailed
    /\ listResponses[1].Contents # <<>>
    /\ keysToDelete = <<>>
    /\ deleteRequests = <<>>
    /\ result.deleted = 0

(* ------------------------------- C37 ---------------------------------- *)
(* C37: when every request is answered and the listing ends, a run of      *)
(* pushToS3 reaches its return with a result and stays there; deleteKeys   *)
(* never sends more than ceil(n / 1000) requests for n candidates.         *)
C37_Terminates ==
    /\ <>[](pc = "returned" /\ result # None /\ Outstanding = 0)
    /\ [](Len(deleteRequests) <= CeilDiv(Len(keysToDelete), 1000))

(* A returned run that sent three delete requests for 2001 candidates.     *)
C37_Witness ==
    /\ pc = "returned"
    /\ result # None
    /\ Len(keysToDelete) = 2 * maxItems + 1
    /\ Len(deleteRequests) = 3
    /\ Len(deleteResponses) = 3

(* ------------------------------- C34 ---------------------------------- *)
Started == pc \notin {"registered", "invoked", "thrown"}

C33_CallerOptionsUntouched ==
    [][/\ inputParams' = inputParams
       /\ (pc = "registered" =>
              /\ DOMAIN params' = DOMAIN inputParams \cup {"pathTranslation", "linkLabel"}
              /\ \A k \in DOMAIN inputParams : params'[k] = inputParams[k]
              /\ ("pathTranslation" \notin DOMAIN inputParams =>
                      \A p \in Paths : params'.pathTranslation[p] = p)
              /\ ("linkLabel" \notin DOMAIN inputParams =>
                      params'.linkLabel = "S3 Website"))
       /\ (pc \notin {"registered", "invoked"} => params' = params)]_vars

(* A run that has put every file, listed and deleted, for a caller who     *)
(* gave neither pathTranslation nor linkLabel: the run used the defaults   *)
(* and the caller's object still has neither.                              *)
C33_Witness ==
    /\ pc = "done"
    /\ goal.code = 0
    /\ "pathTranslation" \notin DOMAIN inputParams
    /\ "linkLabel" \notin DOMAIN inputParams
    /\ "pathToIndex" \in DOMAIN inputParams
    /\ params.pathTranslation = Identity
    /\ goal.externalUrls[1].label = "S3 Website"
    /\ Len(putLog) = MaxFiles
    /\ deleteRequests # <<>>

(* The caller's values take precedence over the defaults.                  *)
C33_WitnessPrecedence ==
    /\ pc = "done"
    /\ goal.code = 0
    /\ "pathTranslation" \in DOMAIN inputParams
    /\ "linkLabel" \in DOMAIN inputParams
    /\ "pathToIndex" \in DOMAIN inputParams
    /\ params.pathTranslation = FlattenTo1
    /\ goal.externalUrls[1].label = "Docs"
    /\ Len(putLog) = MaxFiles

(* ------------------------------- C32 ---------------------------------- *)
Threw == \E f \in 1..NumFiles : cb[f] = "threw"

CallbackRejects == HasCallback(inputParams) /\ inputParams.callback = "rejects"

(* The conversion: a run in which a callback of doWithFiles threw, or the  *)
(* message to the channels was rejected, ends with code 98 and the         *)
(* message of the exception.                                               *)
ConvertedTo98 ==
    (pc = "done" /\ (Threw \/ ~Delivered)) =>
        (goal.code = 98 /\ goal.message = "e.message")

C32_WitnessThrown ==
    /\ pc = "thrown"
    /\ CallbackRejects
    /\ MissingProps(inputParams) = <<>>
    /\ inv.sha
    /\ NumFiles = MaxFiles

====
